---- MODULE Spec2Model ----
(***************************************************************************)
(* The veritium frontend: AssessmentPage, SharedAssessmentPage and HomePage *)
(* (with FileUpload, UrlInput, DoiInput, ClaimInput) as state machines over *)
(* their React state, the requests they have in flight and the toasts they  *)
(* emit.  Each page is checked in a specification of its own.  A handler    *)
(* runs only from a control that is rendered and not disabled; a response   *)
(* is an action of its own, taken from the requests in flight.  last and    *)
(* toasts record the handler that ran in the latest step and the toasts it  *)
(* emitted.                                                                 *)
(***************************************************************************)
EXTENDS Integers, Sequences, FiniteSets, Bags, TLC

VARIABLES
    \* AssessmentPage
    id, assessment, isLoading, feedback, feedbackComment, isSubmittingFeedback,
    \* SharedAssessmentPage
    shareId, sharedAssessment, sharedIsLoading,
    \* HomePage and its inputs
    document, homeIsLoading, claim, url, doi, location,
    \* environment: requests in flight, what the last handler did and emitted,
    \* what the server and the clipboard have received
    pending, last, toasts, feedbackStored, copied, lastUploaded,
    \* rendering: the props a component is given and what it renders from them
    props, rendered

assessmentVars == <<id, assessment, isLoading, feedback, feedbackComment, isSubmittingFeedback>>
sharedVars == <<shareId, sharedAssessment, sharedIsLoading>>
homeVars == <<document, homeIsLoading, claim, url, doi, location, lastUploaded>>
envVars == <<pending, last, toasts, feedbackStored, copied>>
renderVars == <<props, rendered>>
vars == <<assessmentVars, sharedVars, homeVars, envVars, renderVars>>

(***************************************************************************)
(* Bounds of the model.                                                    *)
(***************************************************************************)
\* requests that may be in flight at once
MaxPending == 2
\* submitFeedback calls over one behaviour
MaxFeedbackCalls == 2
\* characters of a typed claim
MaxClaimLen == 3
\* the largest score, in thousandths
MaxScore == 1000
\* evidence snippets, or citations, of one assessment
MaxItems == 3
\* extracted claims of one document
MaxClaims == 5

(***************************************************************************)
(* JavaScript values.                                                      *)
(***************************************************************************)
\* null / undefined of an object-valued state
Null == [null |-> TRUE]
\* undefined of an optional string
Undefined == "undefined"
\* !s for an optional string: undefined and the empty string are falsy
Falsy(s) == s \in {Undefined, ""}
\* a || b on optional strings
OrElse(a, b) == IF Falsy(a) THEN b ELSE a
\* feedback: number | null
NoFeedback == [null |-> TRUE]
Score(n) == [score |-> n]

\* parseInt of the route parameter; NaN for a non-numeric segment
NaN == -1
ParseInt(s) ==
    CASE s = "1" -> 1
      [] s = "2" -> 2
      [] s = "7" -> 7
      [] OTHER -> NaN

(***************************************************************************)
(* Assessment data (types/index.ts).  A score is held in thousandths: 0.7  *)
(* is 700.                                                                 *)
(***************************************************************************)
\* an EvidenceSnippet with the given similarity and sentence_index
EvidenceSnippet(similarity, sentence_index) ==
    [text |-> "sentence", similarity |-> similarity,
     sentence_index |-> sentence_index, word_count |-> 5]
\* a Citation; doi and url are optional
Citation(cid, doi_, url_) ==
    [id |-> cid, text |-> "sentence", similarity_score |-> 650,
     document_title |-> "title", document_id |-> 1, snippet_index |-> 0,
     doi |-> doi_, url |-> url_]

(***************************************************************************)
(* The server as the pages see it.                                         *)
(***************************************************************************)
RouteIds == {"1", "2", "7", "x"}
StoredIds == {1, 2}
\* share_id?: string is optional: assessment 2 has none; assessment 2 is also
\* an empty-evidence result
StoredAssessment(n) ==
    IF n = 1
    THEN [id |-> 1, share_id |-> "s1",
          evidence_snippets |-> <<EvidenceSnippet(700, 4), EvidenceSnippet(400, 1)>>,
          citations |-> <<Citation("c1", "10.1/x", Undefined)>>]
    ELSE [id |-> n, share_id |-> Undefined,
          evidence_snippets |-> <<>>, citations |-> <<>>]
\* error.response?.data?.detail of a failed request: none, empty, or a text
Details == {Undefined, "", "detail"}

Origin == "https://origin"
\* the router's location: the index route, or a page with its parameter
HomeLocation == <<"/">>

(***************************************************************************)
(* Toasts.                                                                 *)
(***************************************************************************)
ToastError(m) == [kind |-> "error", msg |-> m]
ToastSuccess(m) == [kind |-> "success", msg |-> m]

(***************************************************************************)
(* Requests (services/api.ts).  stale: issued by a page instance that has  *)
(* since been unmounted, so its callbacks change no state.                 *)
(***************************************************************************)
GetAssessmentReq(n) == [kind |-> "getAssessment", arg |-> n, stale |-> FALSE]
SubmitFeedbackReq(n, s, c) ==
    [kind |-> "submitFeedback", arg |-> n, feedback_score |-> s,
     feedback_comment |-> c, stale |-> FALSE]

Send(r) == pending' = pending (+) SetToBag({r})
Settle(r) == pending' = pending (-) SetToBag({r})
InFlight == BagToSet(pending)
CanSend == BagCardinality(pending) < MaxPending

(***************************************************************************)
(* AssessmentPage                                                          *)
(***************************************************************************)
ShowsLoading == isLoading
ShowsNotFound == ~isLoading /\ assessment = Null
ShowsResults == ~isLoading /\ assessment # Null
\* the Helpful / Not Helpful buttons and the comment box are rendered
ShowsFeedbackControls == ShowsResults /\ feedback = NoFeedback
ShowsThankYou == ShowsResults /\ feedback # NoFeedback
\* a button wired to a score outside the contract
FeedbackButtonsNeutral == {1, 0}
\* the scores the two buttons pass to handleFeedback
FeedbackButtons == {1, -1}

\* useEffect(() => fetchAssessment(), [id])
FetchAssessment(routeId) ==
    IF routeId = Undefined THEN UNCHANGED pending
    ELSE Send(GetAssessmentReq(ParseInt(routeId)))

AssessmentPageMounted(routeId) ==
    /\ id = routeId
    /\ assessment = Null
    /\ isLoading = TRUE
    /\ feedback = NoFeedback
    /\ feedbackComment = ""
    /\ isSubmittingFeedback = FALSE

\* getAssessment resolves: setAssessment(result), finally setIsLoading(false)
GetAssessmentOk(r) ==
    /\ r \in InFlight /\ r.kind = "getAssessment" /\ ~r.stale
    /\ r.arg \in StoredIds
    /\ Settle(r)
    /\ assessment' = StoredAssessment(r.arg)
    /\ isLoading' = FALSE
    /\ toasts' = <<>>
    /\ last' = [op |-> "getAssessment", ok |-> TRUE, detail |-> Undefined]
    /\ UNCHANGED <<id, feedback, feedbackComment, isSubmittingFeedback>>
    /\ UNCHANGED <<feedbackStored, copied>>

\* getAssessment rejects, without the finally block
GetAssessmentFailNoFinally(r, d) ==
    /\ r \in InFlight /\ r.kind = "getAssessment" /\ ~r.stale
    /\ Settle(r)
    /\ toasts' = <<ToastError(OrElse(d, "Failed to load assessment"))>>
    /\ last' = [op |-> "getAssessment", ok |-> FALSE, detail |-> d]
    /\ UNCHANGED <<id, assessment, isLoading, feedback, feedbackComment, isSubmittingFeedback>>
    /\ UNCHANGED <<feedbackStored, copied>>

\* getAssessment rejects: toast.error(detail || fallback), finally setIsLoading(false)
GetAssessmentFail(r, d) ==
    /\ r \in InFlight /\ r.kind = "getAssessment" /\ ~r.stale
    /\ Settle(r)
    /\ isLoading' = FALSE
    /\ toasts' = <<ToastError(OrElse(d, "Failed to load assessment"))>>
    /\ last' = [op |-> "getAssessment", ok |-> FALSE, detail |-> d]
    /\ UNCHANGED <<id, assessment, feedback, feedbackComment, isSubmittingFeedback>>
    /\ UNCHANGED <<feedbackStored, copied>>

\* `${window.location.origin}/share/${assessment.share_id}`
ShareUrl(a) == <<Origin, "/share/", a.share_id>>

\* handleShare giving the assessment a new share id on every request
HandleShareRegenerates ==
    /\ ShowsResults
    /\ \E fresh \in {"s1", "s2"} :
        /\ assessment' = [assessment EXCEPT !.share_id = fresh]
        /\ copied' = copied \cup {[aid |-> assessment.id, text |-> ShareUrl(assessment')]}
    /\ toasts' = <<ToastSuccess("Share link copied to clipboard!")>>
    /\ last' = [op |-> "handleShare", ok |-> TRUE, detail |-> "clipboard"]
    /\ UNCHANGED <<id, isLoading, feedback, feedbackComment, isSubmittingFeedback>>
    /\ UNCHANGED <<pending, feedbackStored>>

\* handleShare: the Share button is part of the results view
HandleShare ==
    /\ ShowsResults
    /\ IF Falsy(assessment.share_id)
       THEN /\ last' = [op |-> "handleShare", ok |-> FALSE, detail |-> Undefined]
            /\ toasts' = <<>>
            /\ UNCHANGED copied
       ELSE \E via \in {"clipboard", "execCommand"} :
            /\ copied' = copied \cup {[aid |-> assessment.id, text |-> ShareUrl(assessment)]}
            /\ toasts' = <<ToastSuccess("Share link copied to clipboard!")>>
            /\ last' = [op |-> "handleShare", ok |-> TRUE, detail |-> via]
    /\ UNCHANGED <<assessmentVars, pending, feedbackStored>>

\* submitFeedback calls so far that have succeeded or may still succeed
FeedbackCalls ==
    LET RECURSIVE Sum(_)
        Sum(S) == IF S = {} THEN 0
                  ELSE LET n == CHOOSE n \in S : TRUE
                       IN  feedbackStored[n] + Sum(S \ {n})
    IN  Sum(StoredIds)
        + BagCardinality([r \in {q \in InFlight : q.kind = "submitFeedback"} |-> pending[r]])

\* handleFeedback with buttons that are not disabled while submitting
HandleFeedbackNotDisabled(score) ==
    /\ ShowsFeedbackControls
    /\ assessment # Null
    /\ CanSend /\ FeedbackCalls < MaxFeedbackCalls
    /\ isSubmittingFeedback' = TRUE
    /\ Send(SubmitFeedbackReq(assessment.id, score, OrElse(feedbackComment, Undefined)))
    /\ toasts' = <<>>
    /\ last' = [op |-> "handleFeedback", ok |-> TRUE, detail |-> Undefined]
    /\ UNCHANGED <<id, assessment, isLoading, feedback, feedbackComment>>
    /\ UNCHANGED <<feedbackStored, copied>>

\* handleFeedback(score), from an enabled feedback button
HandleFeedback(score) ==
    /\ ShowsFeedbackControls /\ ~isSubmittingFeedback
    /\ assessment # Null
    /\ CanSend /\ FeedbackCalls < MaxFeedbackCalls
    /\ isSubmittingFeedback' = TRUE
    /\ Send(SubmitFeedbackReq(assessment.id, score, OrElse(feedbackComment, Undefined)))
    /\ toasts' = <<>>
    /\ last' = [op |-> "handleFeedback", ok |-> TRUE, detail |-> Undefined]
    /\ UNCHANGED <<id, assessment, isLoading, feedback, feedbackComment>>
    /\ UNCHANGED <<feedbackStored, copied>>

ClickFeedback == \E score \in FeedbackButtons : HandleFeedback(score)

\* the comment textarea, disabled while a submission is in flight
SetFeedbackComment(c) ==
    /\ ShowsFeedbackControls /\ ~isSubmittingFeedback
    /\ c # feedbackComment
    /\ feedbackComment' = c
    /\ toasts' = <<>>
    /\ last' = [op |-> "setFeedbackComment", ok |-> TRUE, detail |-> Undefined]
    /\ UNCHANGED <<id, assessment, isLoading, feedback, isSubmittingFeedback>>
    /\ UNCHANGED <<pending, feedbackStored, copied>>

\* the server stores one more feedback for assessment n
StoreFeedback(n) ==
    feedbackStored' = [feedbackStored EXCEPT ![n] = @ + 1]

\* submitFeedback resolves, the page replacing the assessment by one that has
\* no share id
SubmitFeedbackOkReplacesAssessment(r) ==
    /\ r \in InFlight /\ r.kind = "submitFeedback"
    /\ Settle(r)
    /\ StoreFeedback(r.arg)
    /\ IF r.stale
       THEN /\ toasts' = <<>>
            /\ UNCHANGED <<assessment, feedback, isSubmittingFeedback>>
       ELSE /\ feedback' = Score(r.feedback_score)
            /\ assessment' = [assessment EXCEPT !.share_id = Undefined]
            /\ toasts' = <<ToastSuccess("Thank you for your feedback!")>>
            /\ isSubmittingFeedback' = FALSE
    /\ last' = [op |-> "submitFeedback", ok |-> TRUE, detail |-> Undefined]
    /\ UNCHANGED <<id, isLoading, feedbackComment, copied>>

\* submitFeedback resolves
SubmitFeedbackOk(r) ==
    /\ r \in InFlight /\ r.kind = "submitFeedback"
    /\ Settle(r)
    /\ StoreFeedback(r.arg)
    /\ IF r.stale
       THEN /\ toasts' = <<>>
            /\ UNCHANGED <<feedback, isSubmittingFeedback>>
       ELSE /\ feedback' = Score(r.feedback_score)
            /\ toasts' = <<ToastSuccess("Thank you for your feedback!")>>
            /\ isSubmittingFeedback' = FALSE
    /\ last' = [op |-> "submitFeedback", ok |-> TRUE, detail |-> Undefined]
    /\ UNCHANGED <<id, assessment, isLoading, feedbackComment, copied>>

\* submitFeedback rejects, the score having been set before the request
SubmitFeedbackFailKeepsScore(r, d) ==
    /\ r \in InFlight /\ r.kind = "submitFeedback"
    /\ Settle(r)
    /\ IF r.stale
       THEN /\ toasts' = <<>>
            /\ UNCHANGED <<feedback, isSubmittingFeedback>>
       ELSE /\ toasts' = <<ToastError(OrElse(d, "Failed to submit feedback"))>>
            /\ feedback' = Score(r.feedback_score)
            /\ isSubmittingFeedback' = FALSE
    /\ last' = [op |-> "submitFeedback", ok |-> FALSE, detail |-> d]
    /\ UNCHANGED <<id, assessment, isLoading, feedbackComment>>
    /\ UNCHANGED <<feedbackStored, copied>>

\* submitFeedback rejects
SubmitFeedbackFail(r, d) ==
    /\ r \in InFlight /\ r.kind = "submitFeedback"
    /\ Settle(r)
    /\ IF r.stale
       THEN /\ toasts' = <<>>
            /\ UNCHANGED isSubmittingFeedback
       ELSE /\ toasts' = <<ToastError(OrElse(d, "Failed to submit feedback"))>>
            /\ isSubmittingFeedback' = FALSE
    /\ last' = [op |-> "submitFeedback", ok |-> FALSE, detail |-> d]
    /\ UNCHANGED <<id, assessment, isLoading, feedback, feedbackComment>>
    /\ UNCHANGED <<feedbackStored, copied>>

\* the route parameter changes while the page stays mounted: the effect runs again
RouteChange(routeId) ==
    /\ routeId # id
    /\ CanSend
    /\ id' = routeId
    /\ FetchAssessment(routeId)
    /\ toasts' = <<>>
    /\ last' = [op |-> "routeChange", ok |-> TRUE, detail |-> Undefined]
    /\ UNCHANGED <<assessment, isLoading, feedback, feedbackComment, isSubmittingFeedback>>
    /\ UNCHANGED <<feedbackStored, copied>>

\* the requests an unmounted page leaves behind: its reads are dropped, its
\* feedback submissions may still reach the server
LeftBehind ==
    LET keep == {r \in InFlight : r.kind = "submitFeedback"}
    IN  [r \in {[q EXCEPT !.stale = TRUE] : q \in keep} |->
            IF [r EXCEPT !.stale = FALSE] \in keep /\ r \in keep
            THEN pending[r] + pending[[r EXCEPT !.stale = FALSE]]
            ELSE IF r \in keep THEN pending[r]
            ELSE pending[[r EXCEPT !.stale = FALSE]]]

\* the page is loaded again (reload, or leaving and coming back): fresh state
Reload(routeId) ==
    /\ BagCardinality(LeftBehind) < MaxPending
    /\ id' = routeId
    /\ assessment' = Null
    /\ isLoading' = TRUE
    /\ feedback' = NoFeedback
    /\ feedbackComment' = ""
    /\ isSubmittingFeedback' = FALSE
    /\ pending' = LeftBehind (+) SetToBag({GetAssessmentReq(ParseInt(routeId))})
    /\ toasts' = <<>>
    /\ last' = [op |-> "mount", ok |-> TRUE, detail |-> Undefined]
    /\ UNCHANGED <<feedbackStored, copied>>

(***************************************************************************)
(* SharedAssessmentPage                                                    *)
(***************************************************************************)
ShareRouteIds == {"s1", "s3", "gone"}
\* the assessment the server returns for a share id, Null when there is none
SharedLookup(sid) ==
    CASE sid = "s1" -> StoredAssessment(1)
      [] sid = "s3" -> [id |-> 3, share_id |-> "s3",
                        evidence_snippets |-> <<>>, citations |-> <<>>]
      [] OTHER -> Null

\* the shared page fetching through the private endpoint
GetSharedAssessmentReqById(sid) == [kind |-> "getAssessment", arg |-> sid, stale |-> FALSE]
GetSharedAssessmentReq(sid) == [kind |-> "getSharedAssessment", arg |-> sid, stale |-> FALSE]

SharedShowsLoading == sharedIsLoading
SharedShowsNotFound == ~sharedIsLoading /\ sharedAssessment = Null
SharedShowsResults == ~sharedIsLoading /\ sharedAssessment # Null
SharedPageMounted == location # HomeLocation

\* useEffect(() => fetchAssessment(), [shareId])
FetchSharedAssessment(sid) ==
    IF sid = Undefined THEN UNCHANGED pending
    ELSE Send(GetSharedAssessmentReq(sid))

\* getSharedAssessment resolves
GetSharedAssessmentOk(r) ==
    /\ r \in InFlight /\ r.kind = "getSharedAssessment"
    /\ SharedLookup(r.arg) # Null
    /\ Settle(r)
    /\ sharedAssessment' = SharedLookup(r.arg)
    /\ sharedIsLoading' = FALSE
    /\ toasts' = <<>>
    /\ last' = [op |-> "getSharedAssessment", ok |-> TRUE, detail |-> Undefined]
    /\ UNCHANGED <<shareId, location>>

\* getSharedAssessment rejects
GetSharedAssessmentFail(r, d) ==
    /\ r \in InFlight /\ r.kind = "getSharedAssessment"
    /\ Settle(r)
    /\ sharedIsLoading' = FALSE
    /\ toasts' = <<ToastError(OrElse(d, "Failed to load shared assessment"))>>
    /\ last' = [op |-> "getSharedAssessment", ok |-> FALSE, detail |-> d]
    /\ UNCHANGED <<shareId, sharedAssessment, location>>

\* the share id in the route changes while the page stays mounted
SharedRouteChange(sid) ==
    /\ SharedPageMounted
    /\ sid # shareId
    /\ CanSend
    /\ shareId' = sid
    /\ location' = <<"/share/", sid>>
    /\ FetchSharedAssessment(sid)
    /\ toasts' = <<>>
    /\ last' = [op |-> "routeChange", ok |-> TRUE, detail |-> Undefined]
    /\ UNCHANGED <<sharedAssessment, sharedIsLoading>>

\* a shared link is opened: a fresh page instance; what an earlier instance
\* was still reading is dropped
SharedOpen(sid) ==
    /\ shareId' = sid
    /\ location' = <<"/share/", sid>>
    /\ sharedAssessment' = Null
    /\ sharedIsLoading' = TRUE
    /\ pending' = SetToBag({GetSharedAssessmentReq(sid)})
    /\ toasts' = <<>>
    /\ last' = [op |-> "mount", ok |-> TRUE, detail |-> Undefined]

\* <Link to="/">: 'Create Your Own Assessment' of the not-found view and
\* 'Get Started' of the results view
SharedFollowLink ==
    /\ SharedPageMounted
    /\ ~SharedShowsLoading
    /\ location' = HomeLocation
    /\ pending' = EmptyBag
    /\ toasts' = <<>>
    /\ last' = [op |-> "link", ok |-> TRUE, detail |-> Undefined]
    /\ UNCHANGED <<shareId, sharedAssessment, sharedIsLoading>>

(***************************************************************************)
(* Text of the inputs: a string is a sequence of characters.               *)
(***************************************************************************)
RECURSIVE TrimStart(_)
TrimStart(t) == IF t # <<>> /\ Head(t) = " " THEN TrimStart(Tail(t)) ELSE t
RECURSIVE TrimEnd(_)
TrimEnd(t) ==
    IF t # <<>> /\ t[Len(t)] = " " THEN TrimEnd(SubSeq(t, 1, Len(t) - 1)) ELSE t
\* String.prototype.trim
Trim(t) == TrimEnd(TrimStart(t))

(***************************************************************************)
(* HomePage with FileUpload, UrlInput, DoiInput and ClaimInput             *)
(***************************************************************************)
\* text the user can type into the claim box: every string over a blank and
\* a letter, up to MaxClaimLen characters
RECURSIVE Texts(_)
Texts(n) ==
    IF n = 0 THEN {<<>>}
    ELSE Texts(n - 1) \cup {Append(t, c) : t \in {u \in Texts(n - 1) : Len(u) = n - 1}, c \in {" ", "a"}}
ClaimTexts == Texts(MaxClaimLen)
\* exampleClaims (ClaimInput): sentences of several words
ExampleClaims == {<<"a", " ", "a">>}

\* text typed into the URL box; "http://" stands for a scheme, the other
\* characters for themselves
UrlTexts == {<<>>, <<" ">>, <<"a">>, <<"http://", "a">>, <<"http://", "a", " ">>}
\* new URL(url) does not throw: leading and trailing blanks are stripped, and
\* what is left is an absolute URL: a scheme, a host, no blank inside
ParsesAsUrl(u) ==
    LET t == Trim(u)
    IN  /\ Len(t) >= 2
        /\ t[1] = "http://"
        /\ \A i \in 2..Len(t) : t[i] \notin {" ", "http://"}

\* text typed into the DOI box; "https://", "http://", "dx.", "doi.org/"
\* and "10." stand for these character groups
DoiTexts ==
    {<<>>, <<" ">>, <<"x">>, <<"10.", "x", "/", "y">>,
     <<"https://", "doi.org/", "10.", "x", "/", "y">>, <<"doi.org/", "x">>,
     <<"http://", "dx.", "doi.org/", "10.", "x", "/", "y">>,
     <<"dx.", "doi.org/", "10.", "x", "/", "y">>,
     <<" ", "doi.org/", "10.", "x", "/", "y">>,
     <<"https://", "10.", "x", "/", "y">>,
     <<"10.", "x", "/", "y", " ">>}
\* doi.replace(/^(https?:\/\/)?(dx\.)?doi\.org\//, '')
CleanDoi(d) ==
    LET a == IF d # <<>> /\ Head(d) \in {"https://", "http://"} THEN Tail(d) ELSE d
        b == IF a # <<>> /\ Head(a) = "dx." THEN Tail(a) ELSE a
    IN  IF b # <<>> /\ Head(b) = "doi.org/" THEN Tail(b) ELSE d
\* /^10\..+\/.+/.test(cleanDoi)
DoiPattern(d) ==
    /\ Len(d) >= 4
    /\ d[1] = "10."
    /\ \E i \in 3..(Len(d) - 1) : d[i] = "/"

\* the files a drop hands to onDrop: none (all rejected by the dropzone) or one
PdfType == "application/pdf"
DocxType == "application/vnd.openxmlformats-officedocument.wordprocessingml.document"
MaxFileSize == 50 * 1024 * 1024
FileTypes == {PdfType, DocxType, ""}
FileSizes == {1, MaxFileSize, MaxFileSize + 1}
Files == [type : FileTypes, size : FileSizes]
Drops == {<<>>} \cup {<<f>> : f \in Files}

\* documents and assessments the server may answer with
Documents == {[id |-> 1], [id |-> 2]}
CreatedAssessments(documentId) == {[id |-> 1, document_id |-> documentId], [id |-> 2, document_id |-> documentId]}

UploadFileReq(f) == [kind |-> "uploadFile", arg |-> f, stale |-> FALSE]
UploadFromUrlReq(u) == [kind |-> "uploadFromUrl", arg |-> u, stale |-> FALSE]
UploadFromDoiReq(d) == [kind |-> "uploadFromDoi", arg |-> d, stale |-> FALSE]
CreateAssessmentReq(documentId, userClaim) ==
    [kind |-> "createAssessment", document_id |-> documentId, user_claim |-> userClaim,
     stale |-> FALSE]
UploadKinds == {"uploadFile", "uploadFromUrl", "uploadFromDoi"}

HomePageMounted == location = HomeLocation

\* handleDocumentUploaded that keeps the first document
HandleDocumentUploadedKeepsFirst(doc) ==
    /\ document' = IF document = Null THEN doc ELSE document
    /\ toasts' = <<ToastSuccess("Document processed successfully!")>>

\* handleDocumentUploaded
HandleDocumentUploaded(doc) ==
    /\ document' = doc
    /\ toasts' = <<ToastSuccess("Document processed successfully!")>>

\* handleError
HandleError(error) ==
    /\ toasts' = <<ToastError(error)>>
    /\ homeIsLoading' = FALSE

\* FileUpload.onDrop; the dropzone is disabled while isLoading
OnDrop(acceptedFiles) ==
    /\ HomePageMounted /\ ~homeIsLoading
    /\ IF acceptedFiles = <<>>
       THEN /\ last' = [op |-> "onDrop", ok |-> FALSE, detail |-> "no file"]
            /\ toasts' = <<>>
            /\ UNCHANGED <<homeIsLoading, pending>>
       ELSE LET file == acceptedFiles[1]
            IN  IF file.type \notin {PdfType, DocxType}
                THEN /\ HandleError("Please upload a PDF or DOCX file")
                     /\ last' = [op |-> "onDrop", ok |-> FALSE, detail |-> "type"]
                     /\ UNCHANGED pending
                ELSE IF file.size > MaxFileSize
                THEN /\ HandleError("File size must be less than 50MB")
                     /\ last' = [op |-> "onDrop", ok |-> FALSE, detail |-> "size"]
                     /\ UNCHANGED pending
                ELSE /\ CanSend
                     /\ homeIsLoading' = TRUE
                     /\ Send(UploadFileReq(file))
                     /\ toasts' = <<>>
                     /\ last' = [op |-> "onDrop", ok |-> TRUE, detail |-> Undefined]
    /\ UNCHANGED <<document, claim, url, doi, location, lastUploaded>>

\* the URL box, disabled while isLoading
SetUrl(u) ==
    /\ HomePageMounted /\ ~homeIsLoading
    /\ u # url
    /\ url' = u
    /\ toasts' = <<>>
    /\ last' = [op |-> "setUrl", ok |-> TRUE, detail |-> Undefined]
    /\ UNCHANGED <<document, homeIsLoading, claim, doi, location, lastUploaded, pending>>

\* UrlInput.handleSubmit with a form that can be submitted while isLoading
UrlHandleSubmitWhileLoading ==
    /\ HomePageMounted
    /\ IF Trim(url) = <<>>
       THEN /\ HandleError("Please enter a URL")
            /\ last' = [op |-> "urlSubmit", ok |-> FALSE, detail |-> "empty"]
            /\ UNCHANGED pending
       ELSE IF ~ParsesAsUrl(url)
       THEN /\ HandleError("Please enter a valid URL")
            /\ last' = [op |-> "urlSubmit", ok |-> FALSE, detail |-> "invalid"]
            /\ UNCHANGED pending
       ELSE /\ CanSend
            /\ homeIsLoading' = TRUE
            /\ Send(UploadFromUrlReq(url))
            /\ toasts' = <<>>
            /\ last' = [op |-> "urlSubmit", ok |-> TRUE, detail |-> Undefined]
    /\ UNCHANGED <<document, claim, url, doi, location, lastUploaded>>

\* UrlInput.handleSubmit without the new URL(url) check
UrlHandleSubmitNoParse ==
    /\ HomePageMounted /\ ~homeIsLoading
    /\ IF Trim(url) = <<>>
       THEN /\ HandleError("Please enter a URL")
            /\ last' = [op |-> "urlSubmit", ok |-> FALSE, detail |-> "empty"]
            /\ UNCHANGED pending
       ELSE /\ CanSend
            /\ homeIsLoading' = TRUE
            /\ Send(UploadFromUrlReq(url))
            /\ toasts' = <<>>
            /\ last' = [op |-> "urlSubmit", ok |-> TRUE, detail |-> Undefined]
    /\ UNCHANGED <<document, claim, url, doi, location, lastUploaded>>

\* UrlInput.handleSubmit, on a submit of the form while it is not loading
UrlHandleSubmit ==
    /\ HomePageMounted /\ ~homeIsLoading
    /\ IF Trim(url) = <<>>
       THEN /\ HandleError("Please enter a URL")
            /\ last' = [op |-> "urlSubmit", ok |-> FALSE, detail |-> "empty"]
            /\ UNCHANGED pending
       ELSE IF ~ParsesAsUrl(url)
       THEN /\ HandleError("Please enter a valid URL")
            /\ last' = [op |-> "urlSubmit", ok |-> FALSE, detail |-> "invalid"]
            /\ UNCHANGED pending
       ELSE /\ CanSend
            /\ homeIsLoading' = TRUE
            /\ Send(UploadFromUrlReq(url))
            /\ toasts' = <<>>
            /\ last' = [op |-> "urlSubmit", ok |-> TRUE, detail |-> Undefined]
    /\ UNCHANGED <<document, claim, url, doi, location, lastUploaded>>

\* the DOI box, disabled while isLoading
SetDoi(d) ==
    /\ HomePageMounted /\ ~homeIsLoading
    /\ d # doi
    /\ doi' = d
    /\ toasts' = <<>>
    /\ last' = [op |-> "setDoi", ok |-> TRUE, detail |-> Undefined]
    /\ UNCHANGED <<document, homeIsLoading, claim, url, location, lastUploaded, pending>>

\* DoiInput.handleSubmit that sends the text as it was entered
DoiHandleSubmitSendsRaw ==
    /\ HomePageMounted /\ ~homeIsLoading
    /\ IF Trim(doi) = <<>>
       THEN /\ HandleError("Please enter a DOI")
            /\ last' = [op |-> "doiSubmit", ok |-> FALSE, detail |-> "empty"]
            /\ UNCHANGED pending
       ELSE IF ~DoiPattern(CleanDoi(doi))
       THEN /\ HandleError("Please enter a valid DOI (e.g., 10.1000/123456)")
            /\ last' = [op |-> "doiSubmit", ok |-> FALSE, detail |-> "invalid"]
            /\ UNCHANGED pending
       ELSE /\ CanSend
            /\ homeIsLoading' = TRUE
            /\ Send(UploadFromDoiReq(doi))
            /\ toasts' = <<>>
            /\ last' = [op |-> "doiSubmit", ok |-> TRUE, detail |-> Undefined]
    /\ UNCHANGED <<document, claim, url, doi, location, lastUploaded>>

\* DoiInput.handleSubmit, on a submit of the form while it is not loading
DoiHandleSubmit ==
    /\ HomePageMounted /\ ~homeIsLoading
    /\ IF Trim(doi) = <<>>
       THEN /\ HandleError("Please enter a DOI")
            /\ last' = [op |-> "doiSubmit", ok |-> FALSE, detail |-> "empty"]
            /\ UNCHANGED pending
       ELSE IF ~DoiPattern(CleanDoi(doi))
       THEN /\ HandleError("Please enter a valid DOI (e.g., 10.1000/123456)")
            /\ last' = [op |-> "doiSubmit", ok |-> FALSE, detail |-> "invalid"]
            /\ UNCHANGED pending
       ELSE /\ CanSend
            /\ homeIsLoading' = TRUE
            /\ Send(UploadFromDoiReq(CleanDoi(doi)))
            /\ toasts' = <<>>
            /\ last' = [op |-> "doiSubmit", ok |-> TRUE, detail |-> Undefined]
    /\ UNCHANGED <<document, claim, url, doi, location, lastUploaded>>

\* the fallback message of each upload path
UploadFallback(kind) ==
    CASE kind = "uploadFile" -> "Failed to upload file"
      [] kind = "uploadFromUrl" -> "Failed to fetch from URL"
      [] kind = "uploadFromDoi" -> "Failed to fetch DOI"

\* an upload resolves, without the finally block
UploadOkNoFinally(r, doc) ==
    /\ r \in InFlight /\ r.kind \in UploadKinds
    /\ Settle(r)
    /\ HandleDocumentUploaded(doc)
    /\ lastUploaded' = doc
    /\ url' = IF r.kind = "uploadFromUrl" THEN <<>> ELSE url
    /\ doi' = IF r.kind = "uploadFromDoi" THEN <<>> ELSE doi
    /\ last' = [op |-> r.kind, ok |-> TRUE, detail |-> Undefined]
    /\ UNCHANGED <<homeIsLoading, claim, location>>

\* an upload resolves: onUpload(document), the URL / DOI box is cleared,
\* finally setIsLoading(false)
UploadOk(r, doc) ==
    /\ r \in InFlight /\ r.kind \in UploadKinds
    /\ Settle(r)
    /\ HandleDocumentUploaded(doc)
    /\ lastUploaded' = doc
    /\ url' = IF r.kind = "uploadFromUrl" THEN <<>> ELSE url
    /\ doi' = IF r.kind = "uploadFromDoi" THEN <<>> ELSE doi
    /\ homeIsLoading' = FALSE
    /\ last' = [op |-> r.kind, ok |-> TRUE, detail |-> Undefined]
    /\ UNCHANGED <<claim, location>>

\* an upload rejects, the page dropping the document it had
UploadFailClearsDocument(r, d) ==
    /\ r \in InFlight /\ r.kind \in UploadKinds
    /\ Settle(r)
    /\ HandleError(OrElse(d, UploadFallback(r.kind)))
    /\ document' = Null
    /\ last' = [op |-> r.kind, ok |-> FALSE, detail |-> d]
    /\ UNCHANGED <<claim, url, doi, location, lastUploaded>>

\* an upload rejects: onError(detail || fallback), finally setIsLoading(false)
UploadFail(r, d) ==
    /\ r \in InFlight /\ r.kind \in UploadKinds
    /\ Settle(r)
    /\ HandleError(OrElse(d, UploadFallback(r.kind)))
    /\ last' = [op |-> r.kind, ok |-> FALSE, detail |-> d]
    /\ UNCHANGED <<document, claim, url, doi, location, lastUploaded>>

\* the claim box and the example buttons, rendered once a document is set and
\* disabled while isLoading
SetClaim(c) ==
    /\ HomePageMounted /\ document # Null /\ ~homeIsLoading
    /\ c # claim
    /\ claim' = c
    /\ toasts' = <<>>
    /\ last' = [op |-> "setClaim", ok |-> TRUE, detail |-> Undefined]
    /\ UNCHANGED <<document, homeIsLoading, url, doi, location, lastUploaded, pending>>

HandleExampleClick(example) == SetClaim(example)

\* HomePage.handleClaimSubmit
HandleClaimSubmit(c) ==
    IF document = Null
    THEN /\ toasts' = <<ToastError("Please upload a document first")>>
         /\ UNCHANGED <<homeIsLoading, pending>>
    ELSE /\ CanSend
         /\ homeIsLoading' = TRUE
         /\ Send(CreateAssessmentReq(document.id, c))
         /\ toasts' = <<>>

\* ClaimInput.handleSubmit passing the text as typed
ClaimHandleSubmitUntrimmed ==
    /\ HomePageMounted /\ document # Null /\ ~homeIsLoading
    /\ IF Trim(claim) = <<>>
       THEN /\ last' = [op |-> "claimSubmit", ok |-> FALSE, detail |-> "empty"]
            /\ toasts' = <<>>
            /\ UNCHANGED <<homeIsLoading, pending>>
       ELSE /\ HandleClaimSubmit(claim)
            /\ last' = [op |-> "claimSubmit", ok |-> TRUE, detail |-> Undefined]
    /\ UNCHANGED <<document, claim, url, doi, location, lastUploaded>>

\* ClaimInput.handleSubmit, on a submit of the form while it is not loading.
\* The submit button repeats the handler's blank check (disabled on
\* !claim.trim()); the handler is run on any typed text, so that its own
\* check is what decides.  The same holds for the URL and DOI forms.
ClaimHandleSubmit ==
    /\ HomePageMounted /\ document # Null /\ ~homeIsLoading
    /\ IF Trim(claim) = <<>>
       THEN /\ last' = [op |-> "claimSubmit", ok |-> FALSE, detail |-> "empty"]
            /\ toasts' = <<>>
            /\ UNCHANGED <<homeIsLoading, pending>>
       ELSE /\ HandleClaimSubmit(Trim(claim))
            /\ last' = [op |-> "claimSubmit", ok |-> TRUE, detail |-> Undefined]
    /\ UNCHANGED <<document, claim, url, doi, location, lastUploaded>>

\* createAssessment resolves: navigate(`/assessment/${assessment.id}`)
CreateAssessmentOk(r, a) ==
    /\ r \in InFlight /\ r.kind = "createAssessment"
    /\ a \in CreatedAssessments(r.document_id)
    /\ Settle(r)
    /\ location' = <<"/assessment/", a.id>>
    /\ toasts' = <<>>
    /\ last' = [op |-> "createAssessment", ok |-> TRUE, detail |-> Undefined, id |-> a.id]
    /\ UNCHANGED <<document, homeIsLoading, claim, url, doi, lastUploaded>>

\* createAssessment rejects, the catch block toasting and then calling handleError
CreateAssessmentFailToastsTwice(r, d) ==
    /\ r \in InFlight /\ r.kind = "createAssessment"
    /\ Settle(r)
    /\ toasts' = <<ToastError(OrElse(d, "Failed to create assessment")),
                   ToastError(OrElse(d, "Failed to create assessment"))>>
    /\ homeIsLoading' = FALSE
    /\ last' = [op |-> "createAssessment", ok |-> FALSE, detail |-> d]
    /\ UNCHANGED <<document, claim, url, doi, location, lastUploaded>>

\* createAssessment rejects: handleError(detail || fallback)
CreateAssessmentFail(r, d) ==
    /\ r \in InFlight /\ r.kind = "createAssessment"
    /\ Settle(r)
    /\ HandleError(OrElse(d, "Failed to create assessment"))
    /\ last' = [op |-> "createAssessment", ok |-> FALSE, detail |-> d]
    /\ UNCHANGED <<document, claim, url, doi, location, lastUploaded>>

\* back to the index route after the navigation: a fresh HomePage
GoHome ==
    /\ ~HomePageMounted
    /\ location' = HomeLocation
    /\ document' = Null
    /\ homeIsLoading' = FALSE
    /\ claim' = <<>>
    /\ url' = <<>>
    /\ doi' = <<>>
    /\ lastUploaded' = Null
    /\ pending' = EmptyBag
    /\ toasts' = <<>>
    /\ last' = [op |-> "mount", ok |-> TRUE, detail |-> Undefined]

(***************************************************************************)
(* Components that render what they are given: ScoreDisplay with its       *)
(* ScoreBar, EvidenceSnippets, Citations, the views of the two assessment  *)
(* pages and the Extracted Claims of HomePage's document card.  props is   *)
(* what the component receives, rendered what it returns.                  *)
(***************************************************************************)
\* the thousandths k for which the double k/1000 * 100 falls just below
\* n + 0.5, so that Math.round gives n
RoundsBelowHalf == {145, 285, 565, 575}
\* formatPercentage: Math.round(score * 100), halves rounding up
FormatPercentage(score) ==
    IF score \in RoundsBelowHalf THEN score \div 10 ELSE (score + 5) \div 10
\* formatSimilarity of EvidenceSnippets and of Citations
FormatSimilarity(score) ==
    IF score \in RoundsBelowHalf THEN score \div 10 ELSE (score + 5) \div 10

\* the bar colour with the boundaries left to the lower band
ScoreBarColorStrict(score) ==
    IF score > 700 THEN "bg-green-500"
    ELSE IF score > 400 THEN "bg-yellow-500"
    ELSE "bg-red-500"

\* score >= 0.7 ? 'bg-green-500' : score >= 0.4 ? 'bg-yellow-500' : 'bg-red-500'
ScoreBarColor(score) ==
    IF score >= 700 THEN "bg-green-500"
    ELSE IF score >= 400 THEN "bg-yellow-500"
    ELSE "bg-red-500"

ScoreBar(label, score) ==
    [label |-> label,
     percentage |-> FormatPercentage(score),
     color |-> ScoreBarColor(score),
     width |-> FormatPercentage(score)]

\* the Score Interpretation legend under the bars: the percentages each
\* colour is said to stand for
ScoreInterpretation(color) ==
    CASE color = "bg-green-500" -> [from |-> 70, to |-> 100]
      [] color = "bg-yellow-500" -> [from |-> 40, to |-> 69]
      [] color = "bg-red-500" -> [from |-> 0, to |-> 39]

GetStanceIcon(stance) ==
    CASE stance = "supports" -> [icon |-> "CheckCircleIcon", color |-> "text-green-500"]
      [] stance = "contradicts" -> [icon |-> "XCircleIcon", color |-> "text-red-500"]
      [] OTHER -> [icon |-> "MinusCircleIcon", color |-> "text-gray-500"]

\* getStanceColor without its 'contradicts' case
GetStanceColorNoContradicts(stance) ==
    CASE stance = "supports" -> "text-green-700 bg-green-50 border-green-200"
      [] OTHER -> "text-gray-700 bg-gray-50 border-gray-200"

GetStanceColor(stance) ==
    CASE stance = "supports" -> "text-green-700 bg-green-50 border-green-200"
      [] stance = "contradicts" -> "text-red-700 bg-red-50 border-red-200"
      [] OTHER -> "text-gray-700 bg-gray-50 border-gray-200"

\* The document {...} your claim
StanceSentence(stance) ==
    <<"The document",
      IF stance = "supports" THEN "supports"
      ELSE IF stance = "contradicts" THEN "contradicts"
      ELSE "is neutral about",
      "your claim">>

ScoreDisplay(p) ==
    [confidence |-> FormatPercentage(p.confidence),
     stance |-> [color |-> GetStanceColor(p.stance),
                 icon |-> GetStanceIcon(p.stance),
                 label |-> p.stance,
                 sentence |-> StanceSentence(p.stance)],
     bars |-> <<ScoreBar("Similarity Score", p.similarity),
                ScoreBar("Entailment Score", p.entailment),
                ScoreBar("Method Quality", p.methodQuality),
                ScoreBar("Evidence Strength", p.evidenceStrength)>>]

\* the colour of a snippet's similarity
SimilarityColor(similarity) ==
    IF similarity >= 700 THEN "text-green-600"
    ELSE IF similarity >= 400 THEN "text-yellow-600"
    ELSE "text-red-600"

\* one element of snippets.map((snippet, index) => ...), index counting from 0
EvidenceItem(snippet, index) ==
    [key |-> index,
     number |-> index + 1,
     color |-> SimilarityColor(snippet.similarity),
     percentage |-> FormatSimilarity(snippet.similarity),
     text |-> snippet.text,
     words |-> snippet.word_count,
     position |-> snippet.sentence_index]

\* EvidenceSnippets listing the snippets last to first
EvidenceSnippetsReversed(snippets) ==
    [items |-> [i \in 1..Len(snippets) |->
                    EvidenceItem(snippets[Len(snippets) + 1 - i], i - 1)],
     empty |-> Len(snippets) = 0]

EvidenceSnippets(snippets) ==
    [items |-> [i \in 1..Len(snippets) |-> EvidenceItem(snippets[i], i - 1)],
     empty |-> Len(snippets) = 0]

\* the links of a citation, the source link not depending on the DOI
CitationLinksBoth(citation) ==
    (IF ~Falsy(citation.doi)
     THEN <<[label |-> "DOI", href |-> <<"https://doi.org/", citation.doi>>]>>
     ELSE <<>>)
    \o (IF ~Falsy(citation.url)
        THEN <<[label |-> "Source", href |-> <<citation.url>>]>>
        ELSE <<>>)

\* {citation.doi && <a ...>DOI</a>} {citation.url && !citation.doi && <a ...>Source</a>}
CitationLinks(citation) ==
    (IF ~Falsy(citation.doi)
     THEN <<[label |-> "DOI", href |-> <<"https://doi.org/", citation.doi>>]>>
     ELSE <<>>)
    \o (IF ~Falsy(citation.url) /\ Falsy(citation.doi)
        THEN <<[label |-> "Source", href |-> <<citation.url>>]>>
        ELSE <<>>)

\* one element of citations.map((citation, index) => ...)
CitationItem(citation, index) ==
    [key |-> citation.id,
     number |-> index + 1,
     title |-> citation.document_title,
     relevance |-> FormatSimilarity(citation.similarity_score),
     text |-> citation.text,
     section |-> citation.snippet_index + 1,
     links |-> CitationLinks(citation)]

Citations(citations) ==
    [items |-> [i \in 1..Len(citations) |-> CitationItem(citations[i], i - 1)],
     empty |-> Len(citations) = 0]

\* the sections of a results view that depend on the assessment
EvidenceAndCitations(a) ==
    (IF Len(a.evidence_snippets) > 0 THEN <<"evidence">> ELSE <<>>)
    \o (IF Len(a.citations) > 0 THEN <<"citations">> ELSE <<>>)

\* AssessmentPage taking an assessment without evidence for a missing one
AssessmentPageViewEvidenceRequired(loading, a) ==
    IF loading THEN <<"loading">>
    ELSE IF a = Null \/ Len(a.evidence_snippets) = 0 THEN <<"not-found">>
    ELSE <<"header", "claim", "scores", "explanation">>
         \o EvidenceAndCitations(a) \o <<"feedback">>

\* what AssessmentPage returns: the early returns, then the cards in order;
\* the scores card holds ScoreDisplay, and with it the stance
AssessmentPageView(loading, a) ==
    IF loading THEN <<"loading">>
    ELSE IF a = Null THEN <<"not-found">>
    ELSE <<"header", "claim", "scores", "explanation">>
         \o EvidenceAndCitations(a) \o <<"feedback">>

\* what SharedAssessmentPage returns
SharedAssessmentPageView(loading, a) ==
    IF loading THEN <<"loading">>
    ELSE IF a = Null THEN <<"not-found">>
    ELSE <<"header", "claim", "scores", "explanation">>
         \o EvidenceAndCitations(a) \o <<"call-to-action", "metadata">>

Min(a, b) == IF a <= b THEN a ELSE b
\* Array.prototype.slice(from, to) and String.prototype.substring(from, to),
\* for 0 <= from <= to
Slice(s, from, to) == SubSeq(s, from + 1, Min(to, Len(s)))
Substring(s, from, to) == SubSeq(s, from + 1, Min(to, Len(s)))

\* a long claim cut without the dots
ShownClaimNoEllipsis(c) ==
    IF Len(c) > 150 THEN Substring(c, 0, 150) ELSE c

\* claim.length > 150 ? `${claim.substring(0, 150)}...` : claim
ShownClaim(c) ==
    IF Len(c) > 150 THEN Substring(c, 0, 150) \o <<"...">> ELSE c

\* the Extracted Claims block of the document card
ExtractedClaims(doc) ==
    LET claims == doc.extracted_claims
        first == Slice(claims, 0, 3)
    IN  IF Len(claims) > 0
        THEN [section |-> TRUE,
              items |-> [i \in 1..Len(first) |-> ShownClaim(first[i])],
              more |-> IF Len(claims) > 3 THEN <<Len(claims) - 3>> ELSE <<>>]
        ELSE [section |-> FALSE, items |-> <<>>, more |-> <<>>]

(***************************************************************************)
(* The props the components are rendered with.                             *)
(***************************************************************************)
\* every sequence over S of at most n elements
SeqsUpTo(S, n) == UNION {[1..k -> S] : k \in 0..n}

\* the scores a bar is drawn for: every thousandth from 0 to 1
Scores == 0..MaxScore
\* the scores next to the band boundaries
BandEdgeScores == {399, 400, 699, 700}
\* stance: the three of the type, and what a server could send besides
Stances == {"supports", "contradicts", "neutral", "mixed", ""}

ScoreBarProps == [component : {"ScoreBar"}, score : Scores]
ScoreDisplayProps ==
    [component : {"ScoreDisplay"}, stance : Stances, confidence : {695, 700},
     similarity : {399, 400}, entailment : {699, 700},
     methodQuality : {0, MaxScore}, evidenceStrength : {0, 550}]

Snippets == {EvidenceSnippet(s, i) : s \in BandEdgeScores, i \in {0, 1}}
EvidenceSnippetsProps ==
    [component : {"EvidenceSnippets"}, snippets : SeqsUpTo(Snippets, MaxItems)]

CitationValues ==
    {Citation(c, d, u) : c \in {"c1", "c2"}, d \in {Undefined, "", "10.1/x"},
                         u \in {Undefined, "", "http://u"}}
CitationsProps ==
    [component : {"Citations"}, citations : SeqsUpTo(CitationValues, MaxItems)]

\* the assessments a page can hold: the stored ones, and every combination of
\* no or one snippet with no or one citation
ViewAssessments ==
    {StoredAssessment(n) : n \in StoredIds}
    \cup {SharedLookup("s1"), SharedLookup("s3")}
    \cup {[id |-> 9, share_id |-> Undefined, evidence_snippets |-> e, citations |-> c] :
            e \in SeqsUpTo({EvidenceSnippet(700, 0)}, 1),
            c \in SeqsUpTo({Citation("c1", Undefined, Undefined)}, 1)}
PageProps(component) ==
    [component : {component}, isLoading : BOOLEAN,
     assessment : {Null} \cup ViewAssessments]

\* an extracted claim of n characters
ClaimOfLength(n) == [i \in 1..n |-> IF i % 2 = 1 THEN "a" ELSE "b"]
ClaimLengths == {1, 149, 150, 151}
ExtractedClaimLists == SeqsUpTo({ClaimOfLength(n) : n \in ClaimLengths}, MaxClaims)
HomePageProps ==
    {[component |-> "HomePage", document |-> [id |-> 1, extracted_claims |-> l]] :
        l \in ExtractedClaimLists}

\* a render of the component the props are for
Render(output) ==
    /\ rendered' = output
    /\ UNCHANGED <<props, assessmentVars, sharedVars, homeVars, envVars>>

RenderScoreBar ==
    /\ props.component = "ScoreBar"
    /\ Render(ScoreBar("Score", props.score))
RenderScoreDisplay ==
    /\ props.component = "ScoreDisplay"
    /\ Render(ScoreDisplay(props))
RenderEvidenceSnippets ==
    /\ props.component = "EvidenceSnippets"
    /\ Render(EvidenceSnippets(props.snippets))
RenderCitations ==
    /\ props.component = "Citations"
    /\ Render(Citations(props.citations))
RenderAssessmentPage ==
    /\ props.component = "AssessmentPage"
    /\ Render([sections |-> AssessmentPageView(props.isLoading, props.assessment)])
RenderSharedAssessmentPage ==
    /\ props.component = "SharedAssessmentPage"
    /\ Render([sections |-> SharedAssessmentPageView(props.isLoading, props.assessment)])
RenderHomePage ==
    /\ props.component = "HomePage"
    /\ Render(ExtractedClaims(props.document))

AssessmentPageInit ==
    /\ \E routeId \in RouteIds :
        /\ AssessmentPageMounted(routeId)
        /\ pending = SetToBag({GetAssessmentReq(ParseInt(routeId))})
    /\ last = [op |-> "mount", ok |-> TRUE, detail |-> Undefined]
    /\ toasts = <<>>
    /\ feedbackStored = [n \in StoredIds |-> 0]
    /\ copied = {}

SharedPageIdle ==
    /\ shareId = Undefined
    /\ sharedAssessment = Null
    /\ sharedIsLoading = TRUE

\* no component is being rendered on its own
RenderingIdle ==
    /\ props = Null
    /\ rendered = Null

HomePageIdle ==
    /\ document = Null
    /\ homeIsLoading = FALSE
    /\ claim = <<>>
    /\ url = <<>>
    /\ doi = <<>>
    /\ location = HomeLocation
    /\ lastUploaded = Null

\* a step of one page leaves the other pages' state alone
OnAssessmentPage(A) == A /\ UNCHANGED <<sharedVars, homeVars, renderVars>>
OnSharedPage(A) ==
    /\ A
    /\ UNCHANGED <<assessmentVars, feedbackStored, copied, renderVars>>
    /\ UNCHANGED <<document, homeIsLoading, claim, url, doi, lastUploaded>>
OnHomePage(A) ==
    /\ A
    /\ UNCHANGED <<assessmentVars, sharedVars, feedbackStored, copied, renderVars>>

SettleGetAssessment ==
    \/ \E r \in InFlight : GetAssessmentOk(r)
    \/ \E r \in InFlight, d \in Details : GetAssessmentFail(r, d)

AssessmentPageNext ==
    \/ OnAssessmentPage(SettleGetAssessment)
    \/ OnAssessmentPage(HandleShare)
    \/ OnAssessmentPage(ClickFeedback)
    \/ OnAssessmentPage(\E c \in {"", "comment"} : SetFeedbackComment(c))
    \/ OnAssessmentPage(\E r \in InFlight : SubmitFeedbackOk(r))
    \/ OnAssessmentPage(\E r \in InFlight, d \in Details : SubmitFeedbackFail(r, d))
    \/ OnAssessmentPage(\E routeId \in RouteIds : RouteChange(routeId))
    \/ OnAssessmentPage(\E routeId \in RouteIds : Reload(routeId))

InitAssessmentPage == AssessmentPageInit /\ SharedPageIdle /\ HomePageIdle /\ RenderingIdle

SpecAssessmentPage == InitAssessmentPage /\ [][AssessmentPageNext]_vars

AssessmentPageIdle ==
    /\ id = Undefined
    /\ assessment = Null
    /\ isLoading = TRUE
    /\ feedback = NoFeedback
    /\ feedbackComment = ""
    /\ isSubmittingFeedback = FALSE
    /\ feedbackStored = [n \in StoredIds |-> 0]
    /\ copied = {}

InitSharedPage ==
    /\ \E sid \in ShareRouteIds :
        /\ shareId = sid
        /\ location = <<"/share/", sid>>
        /\ pending = SetToBag({GetSharedAssessmentReq(sid)})
    /\ sharedAssessment = Null
    /\ sharedIsLoading = TRUE
    /\ last = [op |-> "mount", ok |-> TRUE, detail |-> Undefined]
    /\ toasts = <<>>
    /\ document = Null
    /\ homeIsLoading = FALSE
    /\ claim = <<>>
    /\ url = <<>>
    /\ doi = <<>>
    /\ lastUploaded = Null
    /\ AssessmentPageIdle
    /\ RenderingIdle

SharedPageNext ==
    \/ OnSharedPage(\E r \in InFlight : GetSharedAssessmentOk(r))
    \/ OnSharedPage(\E r \in InFlight, d \in Details : GetSharedAssessmentFail(r, d))
    \/ OnSharedPage(\E sid \in ShareRouteIds : SharedRouteChange(sid))
    \/ OnSharedPage(\E sid \in ShareRouteIds : SharedOpen(sid))
    \/ OnSharedPage(SharedFollowLink)

SpecSharedPage == InitSharedPage /\ [][SharedPageNext]_vars

InitHomePage ==
    /\ HomePageIdle
    /\ SharedPageIdle
    /\ AssessmentPageIdle
    /\ RenderingIdle
    /\ pending = EmptyBag
    /\ last = [op |-> "mount", ok |-> TRUE, detail |-> Undefined]
    /\ toasts = <<>>

HomePageNext ==
    \/ OnHomePage(\E acceptedFiles \in Drops : OnDrop(acceptedFiles))
    \/ OnHomePage(\E u \in UrlTexts : SetUrl(u))
    \/ OnHomePage(UrlHandleSubmit)
    \/ OnHomePage(\E d \in DoiTexts : SetDoi(d))
    \/ OnHomePage(DoiHandleSubmit)
    \/ OnHomePage(\E r \in InFlight, doc \in Documents : UploadOk(r, doc))
    \/ OnHomePage(\E r \in InFlight, d \in Details : UploadFail(r, d))
    \/ OnHomePage(\E c \in ClaimTexts : SetClaim(c))
    \/ OnHomePage(\E example \in ExampleClaims : HandleExampleClick(example))
    \/ OnHomePage(ClaimHandleSubmit)
    \/ OnHomePage(\E r \in InFlight, a \in CreatedAssessments(1) \cup CreatedAssessments(2) : CreateAssessmentOk(r, a))
    \/ OnHomePage(\E r \in InFlight, d \in Details : CreateAssessmentFail(r, d))
    \/ OnHomePage(GoHome)

SpecHomePage == InitHomePage /\ [][HomePageNext]_vars

\* a response to an upload, and to a createAssessment, arrives
SettleUpload ==
    \/ \E r \in InFlight, doc \in Documents : UploadOk(r, doc)
    \/ \E r \in InFlight, d \in Details : UploadFail(r, d)
SettleCreateAssessment ==
    \/ \E r \in InFlight, a \in CreatedAssessments(1) \cup CreatedAssessments(2) : CreateAssessmentOk(r, a)
    \/ \E r \in InFlight, d \in Details : CreateAssessmentFail(r, d)

\* HomePage with every request settling: the axios instance has a timeout,
\* so a request that gets no answer is rejected
SpecHomeSettling ==
    /\ InitHomePage
    /\ [][HomePageNext]_vars
    /\ WF_vars(OnHomePage(SettleUpload))
    /\ WF_vars(OnHomePage(SettleCreateAssessment))

\* one mount of the page, from its first render until it is left; every
\* request settles (axios timeout), so a pending fetch is eventually answered
AssessmentMountNext ==
    \/ OnAssessmentPage(SettleGetAssessment)
    \/ OnAssessmentPage(HandleShare)
    \/ OnAssessmentPage(ClickFeedback)
    \/ OnAssessmentPage(\E c \in {"", "comment"} : SetFeedbackComment(c))
    \/ OnAssessmentPage(\E r \in InFlight : SubmitFeedbackOk(r))
    \/ OnAssessmentPage(\E r \in InFlight, d \in Details : SubmitFeedbackFail(r, d))
    \/ OnAssessmentPage(\E routeId \in RouteIds : RouteChange(routeId))

SpecAssessmentMount ==
    /\ InitAssessmentPage
    /\ [][AssessmentMountNext]_vars
    /\ WF_vars(OnAssessmentPage(SettleGetAssessment))

\* the components on their own: each is given props and renders them
InitRendering ==
    /\ \/ props \in ScoreBarProps
       \/ props \in ScoreDisplayProps
       \/ props \in EvidenceSnippetsProps
       \/ props \in CitationsProps
       \/ props \in PageProps("AssessmentPage")
       \/ props \in PageProps("SharedAssessmentPage")
       \/ props \in HomePageProps
    /\ rendered = Null
    /\ HomePageIdle
    /\ SharedPageIdle
    /\ AssessmentPageIdle
    /\ pending = EmptyBag
    /\ last = [op |-> "mount", ok |-> TRUE, detail |-> Undefined]
    /\ toasts = <<>>

RenderingNext ==
    \/ RenderScoreBar
    \/ RenderScoreDisplay
    \/ RenderEvidenceSnippets
    \/ RenderCitations
    \/ RenderAssessmentPage
    \/ RenderSharedAssessmentPage
    \/ RenderHomePage

SpecRendering == InitRendering /\ [][RenderingNext]_vars

(***************************************************************************)
(* Claims about AssessmentPage.                                            *)
(***************************************************************************)
\* submitFeedback requests of the mounted page instance that are in flight
OwnFeedbackInFlight ==
    BagCardinality([r \in {q \in InFlight : q.kind = "submitFeedback" /\ ~q.stale}
                        |-> pending[r]])

\* C1: the mounted AssessmentPage has at most one submitFeedback request in
\* flight, and only while isSubmittingFeedback is set; once a submission has
\* succeeded (feedback is set) the feedback controls are gone and the page has
\* no submitFeedback request in flight, so none was issued after the success.
C1_NoDoubleSubmission ==
    /\ OwnFeedbackInFlight <= 1
    /\ (OwnFeedbackInFlight = 1) = isSubmittingFeedback
    /\ feedback # NoFeedback => ~ShowsFeedbackControls /\ OwnFeedbackInFlight = 0

C1_Witness ==
    /\ last.op = "submitFeedback" /\ last.ok
    /\ ShowsThankYou
    /\ pending # EmptyBag

\* C2 (as claimed): no assessment receives more than one successful
\* submitFeedback, and a page showing an assessment that has already received
\* feedback does not offer the feedback controls.
C2_FeedbackIdempotent ==
    /\ \A n \in StoredIds : feedbackStored[n] <= 1
    /\ ShowsResults /\ feedbackStored[assessment.id] >= 1 => ~ShowsFeedbackControls

\* C3: every submitFeedback request in flight carries a feedback_score of 1 or
\* -1, and the page's own request exists only between handleFeedback setting
\* isSubmittingFeedback and the request settling.
C3_FeedbackScoreRange ==
    \A r \in InFlight :
        r.kind = "submitFeedback" =>
            /\ r.feedback_score \in {-1, 1}
            /\ ~r.stale => isSubmittingFeedback

C3_Witness ==
    \E r \in InFlight : r.kind = "submitFeedback" /\ ~r.stale /\ r.feedback_score = -1

\* C4 (as claimed): a share request never ends without a link: after
\* handleShare has run, the link of the displayed assessment has been copied.
C4_ShareAlwaysYieldsLink ==
    last.op = "handleShare" =>
        /\ last.ok
        /\ \E c \in copied : c.aid = assessment.id

\* C5: every link handleShare has copied for an assessment is
\* <origin>/share/<share_id> with that assessment's share id, so all share
\* requests on one assessment copy the same link; and the loaded assessment's
\* share_id stays the one the server returned.
C5_ShareIdStable ==
    /\ \A c \in copied :
          /\ c.text = <<Origin, "/share/", StoredAssessment(c.aid).share_id>>
          /\ ~Falsy(StoredAssessment(c.aid).share_id)
    /\ \A c1, c2 \in copied : c1.aid = c2.aid => c1.text = c2.text
    /\ assessment # Null => assessment = StoredAssessment(assessment.id)

C5_Witness ==
    /\ last.op = "handleShare" /\ last.ok /\ last.detail = "execCommand"
    /\ copied # {}
    /\ feedback # NoFeedback

\* the message a failed getAssessment is surfaced with
LoadErrorToast(d) ==
    IF d \in {Undefined, ""} THEN [kind |-> "error", msg |-> "Failed to load assessment"]
    ELSE [kind |-> "error", msg |-> d]

C10_Views ==
    /\ ShowsLoading \/ ShowsNotFound \/ ShowsResults
    /\ ~(ShowsLoading /\ ShowsNotFound)
    /\ ~(ShowsLoading /\ ShowsResults)
    /\ ~(ShowsNotFound /\ ShowsResults)
    /\ (last.op = "getAssessment" /\ ~last.ok) =>
          /\ toasts = <<LoadErrorToast(last.detail)>>
          /\ ~ShowsLoading
          /\ assessment = Null => ShowsNotFound /\ ~ShowsFeedbackControls

\* C10: during one mount of AssessmentPage the loading state always ends;
\* after a failed getAssessment with no assessment loaded the not-found view
\* is shown, with one error toast carrying the server detail or 'Failed to
\* load assessment', and without share or feedback controls; exactly one of
\* the loading, not-found and results views is shown at any time.
C10_FailedFetchSurfaced ==
    /\ []C10_Views
    /\ (isLoading ~> ~isLoading)

C10_Witness ==
    /\ last.op = "getAssessment" /\ ~last.ok /\ last.detail = ""
    /\ assessment = Null /\ ShowsNotFound

\* C11: a step of handleShare, of handleFeedback or of a submitFeedback
\* response (success or failure) leaves the assessment state, the route id and
\* isLoading as they were: only feedback, feedbackComment and
\* isSubmittingFeedback may change on the page.
C11_AssessmentImmutable ==
    [][last'.op \in {"handleShare", "handleFeedback", "submitFeedback"}
          => UNCHANGED <<id, assessment, isLoading>>]_vars

C11_Witness ==
    /\ last.op = "submitFeedback" /\ ~last.ok
    /\ toasts # <<>>
    /\ assessment = StoredAssessment(1)
    /\ copied # {}

\* a getAssessment of the mounted page has not settled yet
FetchInFlight == \E r \in InFlight : r.kind = "getAssessment" /\ ~r.stale

\* C20 (as claimed): once every fetch of the mounted AssessmentPage has
\* completed or failed, the results view shows the assessment of the current
\* route id: the response for an earlier route id neither overwrites the
\* current one's nor stays on display.
C20_ShownAssessmentIsCurrent ==
    ShowsResults /\ ~FetchInFlight => assessment.id = ParseInt(id)

\* C21 (as claimed), for a displayed assessment that has received no
\* feedback at all, hence none in this page session: the Helpful / Not
\* Helpful controls are available for it, also when feedback for another
\* assessment succeeded before the route id changed.
C21_FeedbackBelongsToAssessment ==
    ShowsResults /\ assessment.id = ParseInt(id) /\ feedbackStored[assessment.id] = 0
        => ShowsFeedbackControls

\* the message a failed submitFeedback is surfaced with
FeedbackErrorToast(d) ==
    IF d \in {Undefined, ""} THEN [kind |-> "error", msg |-> "Failed to submit feedback"]
    ELSE [kind |-> "error", msg |-> d]
\* the step settles this request of the mounted page
SettlesOwn(r) ==
    /\ r.kind = "submitFeedback" /\ ~r.stale
    /\ pending' = pending (-) SetToBag({r})

\* C22: a step in which a submitFeedback of the mounted page fails leaves
\* feedback null and the typed comment as it was, sets isSubmittingFeedback
\* to false, so that the controls are shown and enabled, and emits exactly
\* one error toast with the server detail or 'Failed to submit feedback';
\* and feedback (hence the thank-you view) is set only by a step in which a
\* submitFeedback of the page succeeds, to the score that request carried.
C22_FailedFeedbackRecoverable ==
    [][/\ \A r \in InFlight :
              (last'.op = "submitFeedback" /\ ~last'.ok /\ SettlesOwn(r)) =>
                  /\ feedback = NoFeedback /\ feedback' = NoFeedback
                  /\ feedbackComment' = feedbackComment
                  /\ ~isSubmittingFeedback'
                  /\ ShowsFeedbackControls'
                  /\ toasts' = <<FeedbackErrorToast(last'.detail)>>
       /\ (feedback' # feedback /\ feedback' # NoFeedback) =>
              /\ last'.op = "submitFeedback" /\ last'.ok
              /\ \E r \in InFlight :
                    SettlesOwn(r) /\ feedback' = [score |-> r.feedback_score]
              /\ ShowsThankYou'
      ]_vars

C22_Witness ==
    /\ last.op = "submitFeedback" /\ ~last.ok /\ last.detail = Undefined
    /\ toasts = <<FeedbackErrorToast(Undefined)>>
    /\ feedbackComment = "comment"
    /\ ShowsFeedbackControls /\ ~isSubmittingFeedback

(***************************************************************************)
(* Claims about SharedAssessmentPage.                                      *)
(***************************************************************************)
\* C6: whatever is done on SharedAssessmentPage, every request in flight is a
\* getSharedAssessment for a share id of the route; no feedback is stored, no
\* link is copied, no document is uploaded and no assessment is created.
C6_SharedReadOnly ==
    /\ \A r \in InFlight : r.kind = "getSharedAssessment" /\ r.arg \in ShareRouteIds
    /\ \A n \in StoredIds : feedbackStored[n] = 0
    /\ copied = {}
    /\ document = Null /\ lastUploaded = Null

C6_Witness ==
    /\ SharedShowsResults
    /\ sharedAssessment.id = 3
    /\ shareId = "gone"
    /\ pending # EmptyBag

(***************************************************************************)
(* Claims about HomePage.                                                  *)
(***************************************************************************)
\* C7: every createAssessment request in flight was sent after a successful
\* upload in this HomePage session and carries the id of the most recently
\* successfully uploaded document; the document state is that document: it
\* is null only before the first successful upload.
C7_CreateUsesUploadedDocument ==
    /\ document = lastUploaded
    /\ \A r \in InFlight :
          r.kind = "createAssessment" =>
              lastUploaded # Null /\ r.document_id = lastUploaded.id

C7_Witness ==
    /\ \E r \in InFlight : r.kind = "createAssessment" /\ r.document_id = 2
    /\ last.op = "claimSubmit"

\* a text made of blanks only (the empty text included)
IsBlank(t) == \A i \in 1..Len(t) : t[i] = " "
Blanks(n) == [i \in 1..n |-> " "]

\* C8: after ClaimInput.handleSubmit has run on an empty or whitespace-only
\* claim no createAssessment request is in flight, isLoading is false and
\* nothing is toasted; every createAssessment request in flight carries the
\* typed claim without its leading and trailing blanks, and it is not empty.
C8_BlankClaimRejected ==
    /\ last.op = "claimSubmit" /\ IsBlank(claim) =>
          /\ ~last.ok
          /\ ~homeIsLoading
          /\ toasts = <<>>
          /\ \A r \in InFlight : r.kind # "createAssessment"
    /\ \A r \in InFlight :
          r.kind = "createAssessment" =>
              /\ r.user_claim # <<>>
              /\ Head(r.user_claim) # " "
              /\ r.user_claim[Len(r.user_claim)] # " "
              /\ \E i, j \in 0..Len(claim) :
                    claim = Blanks(i) \o r.user_claim \o Blanks(j)

C8_Witness ==
    /\ last.op = "claimSubmit" /\ ~last.ok
    /\ claim = <<" ", " ">>
    /\ document # Null

\* the message a failed createAssessment is surfaced with
CreateErrorToast(d) ==
    IF d \in {Undefined, ""}
    THEN [kind |-> "error", msg |-> "Failed to create assessment"]
    ELSE [kind |-> "error", msg |-> d]

\* C9: HomePage has navigated away only through a createAssessment that
\* resolved, and then to /assessment/<id of the returned assessment>; after a
\* failed createAssessment the location is still the index route, exactly one
\* error toast (the server detail, or 'Failed to create assessment') was
\* emitted, and isLoading is false.
C9_NavigateOnlyOnSuccess ==
    /\ location # HomeLocation =>
          /\ last.op = "createAssessment" /\ last.ok
          /\ location = <<"/assessment/", last.id>>
    /\ last.op = "createAssessment" /\ ~last.ok =>
          /\ location = HomeLocation
          /\ toasts = <<CreateErrorToast(last.detail)>>
          /\ ~homeIsLoading
          /\ pending = EmptyBag

C9_Witness ==
    /\ last.op = "createAssessment" /\ ~last.ok /\ last.detail = "detail"
    /\ document # Null /\ claim = <<"a", " ", "a">>

\* C18: at most one request (uploadFile, uploadFromUrl, uploadFromDoi or
\* createAssessment) of HomePage is in flight at any time, and while one is
\* in flight on the mounted page isLoading is set, which disables the
\* dropzone, the URL and DOI forms, the claim box, the Analyze button and
\* the example buttons.
C18_OneRequestInFlight ==
    /\ BagCardinality(pending) <= 1
    /\ \A r \in InFlight : r.kind \in UploadKinds \cup {"createAssessment"}
    /\ HomePageMounted /\ pending # EmptyBag => homeIsLoading

C18_Witness ==
    /\ \E r \in InFlight : r.kind = "uploadFromDoi"
    /\ homeIsLoading
    /\ document # Null
    /\ claim # <<>>

\* an upload or a createAssessment is in flight
UploadInFlight == \E r \in InFlight : r.kind \in UploadKinds
CreateInFlight == \E r \in InFlight : r.kind = "createAssessment"

C19_LoadingReset ==
    /\ last.op \in UploadKinds => ~homeIsLoading
    /\ last.op = "createAssessment" /\ ~last.ok => ~homeIsLoading
    /\ HomePageMounted /\ pending = EmptyBag => ~homeIsLoading

\* C19: an upload in flight (which set isLoading) is always followed by
\* isLoading being false again; right after an upload has settled, with
\* either outcome, and right after a createAssessment has failed, isLoading
\* is false; and whenever HomePage is mounted with no request in flight,
\* isLoading is false.
C19_LoadingNeverSticks ==
    /\ []C19_LoadingReset
    /\ (UploadInFlight /\ homeIsLoading) ~> ~homeIsLoading
    /\ (CreateInFlight /\ homeIsLoading) ~> (~homeIsLoading \/ ~HomePageMounted)

C19_Witness ==
    /\ last.op = "uploadFromUrl" /\ ~last.ok
    /\ ~homeIsLoading
    /\ pending = EmptyBag
    /\ document # Null

\* the one toast onError leaves for a failed upload of this kind
UploadErrorToast(kind, d) ==
    [kind |-> "error",
     msg |-> IF d \notin {Undefined, ""} THEN d
             ELSE IF kind = "uploadFile" THEN "Failed to upload file"
             ELSE IF kind = "uploadFromUrl" THEN "Failed to fetch from URL"
             ELSE "Failed to fetch DOI"]

\* C23: a step in which an upload fails, or in which a drop or a URL / DOI
\* submission is rejected, leaves document as it was, and a failed upload
\* calls onError once (one error toast, the detail or the path's fallback)
\* and onUpload not at all; a step in which an upload succeeds calls
\* onUpload once (one success toast) and makes document the document the
\* request returned; no other step of the mounted page changes document.
C23_UploadFrame ==
    [][/\ (last'.op \in UploadKinds /\ ~last'.ok) =>
              /\ document' = document
              /\ toasts' = <<UploadErrorToast(last'.op, last'.detail)>>
       /\ (last'.op \in {"onDrop", "urlSubmit", "doiSubmit"} /\ ~last'.ok) =>
              /\ document' = document
              /\ \A k \in 1..Len(toasts') : toasts'[k].kind = "error"
       /\ (last'.op \in UploadKinds /\ last'.ok) =>
              /\ document' = lastUploaded' /\ document' \in Documents
              /\ toasts' = <<[kind |-> "success", msg |-> "Document processed successfully!"]>>
       /\ document' # document =>
              \/ last'.op \in UploadKinds /\ last'.ok
              \/ last'.op = "mount" /\ document' = Null
      ]_vars

C23_Witness ==
    /\ last.op = "uploadFile" /\ ~last.ok /\ last.detail = ""
    /\ toasts = <<UploadErrorToast("uploadFile", "")>>
    /\ document # Null

\* C25 (as claimed): every file sent to uploadFile has the MIME type of a
\* PDF or a DOCX and a size strictly less than 50MB (52428800 bytes), and a
\* drop that onDrop rejects for its type or size calls onError exactly once,
\* sends no request and leaves isLoading false.
C25_OnlySmallFilesSent ==
    [][/\ \A r \in BagToSet(pending') :
              r.kind = "uploadFile" =>
                  /\ r.arg.type \in {PdfType, DocxType}
                  /\ r.arg.size < 50 * 1024 * 1024
       /\ (last'.op = "onDrop" /\ ~last'.ok /\ last'.detail \in {"type", "size"}) =>
              /\ Len(toasts') = 1 /\ toasts'[1].kind = "error"
              /\ pending' = pending
              /\ ~homeIsLoading'
      ]_vars

\* the forms of a leading doi.org prefix: an optional http:// or https://,
\* an optional dx., then doi.org/
DoiOrgPrefixes ==
    {s \o d \o <<"doi.org/">> : s \in {<<>>, <<"http://">>, <<"https://">>},
                                d \in {<<>>, <<"dx.">>}}
\* text is prefix followed by rest
StartsWith(text, prefix) ==
    /\ Len(text) >= Len(prefix)
    /\ SubSeq(text, 1, Len(prefix)) = prefix
\* sent is text without its leading doi.org prefix, text itself if it has none
WithoutDoiOrgPrefix(text, sent) ==
    IF \E p \in DoiOrgPrefixes : StartsWith(text, p)
    THEN \E p \in DoiOrgPrefixes : StartsWith(text, p) /\ text = p \o sent
    ELSE sent = text
\* 10.<non-empty>/<non-empty>, with anything after it
IsDoi(d) ==
    \E i \in 1..Len(d) :
        /\ d[1] = "10." /\ d[i] = "/"
        /\ i > 2 /\ i < Len(d)

\* C26: a step sends an uploadFromDoi request only as an accepted submit of
\* the DOI form, the one request it sends carries the entered text without
\* its leading doi.org prefix, and what it carries has the form
\* 10.<non-empty>/<non-empty>: the stripped text is what is validated and
\* sent, whether or not the text as entered has that form.
C26_SentDoiIsClean ==
    [][\A r \in BagToSet(pending') :
          (r.kind = "uploadFromDoi" /\ CopiesIn(r, pending') > CopiesIn(r, pending)) =>
              /\ last'.op = "doiSubmit" /\ last'.ok
              /\ pending' = pending (+) SetToBag({r})
              /\ WithoutDoiOrgPrefix(doi, r.arg)
              /\ IsDoi(r.arg)
      ]_vars

C26_Witness ==
    /\ last.op = "doiSubmit" /\ last.ok
    /\ doi = <<"http://", "dx.", "doi.org/", "10.", "x", "/", "y">>
    /\ \E r \in BagToSet(pending) :
           r.kind = "uploadFromDoi" /\ r.arg = <<"10.", "x", "/", "y">>

\* what a rejected submit leaves: one error toast with this message, no
\* request sent, isLoading false, both input texts as they were
RejectedWith(msg) ==
    /\ ~last'.ok
    /\ toasts' = <<[kind |-> "error", msg |-> msg]>>
    /\ pending' = pending
    /\ ~homeIsLoading'
    /\ url' = url /\ doi' = doi

\* C27: a submit of the URL form with an empty or blank text or with a text
\* that is not a URL, and a submit of the DOI form with an empty or blank
\* text or with a text that is not a DOI after its doi.org prefix is removed,
\* calls onError exactly once with the message of the failed check, sends no
\* request, leaves isLoading false and leaves the text of the input as it
\* was; the page empties an input only when an upload from that input has
\* succeeded (or when the page is mounted afresh).
C27_RejectedBeforeRequest ==
    [][/\ last'.op = "urlSubmit" =>
              /\ IsBlank(url) => RejectedWith("Please enter a URL")
              /\ (~IsBlank(url) /\ ~ParsesAsUrl(url)) => RejectedWith("Please enter a valid URL")
              /\ ~last'.ok => (IsBlank(url) \/ ~ParsesAsUrl(url))
       /\ last'.op = "doiSubmit" =>
              /\ IsBlank(doi) => RejectedWith("Please enter a DOI")
              /\ (~IsBlank(doi) /\ \A k \in 0..Len(doi) :
                                       LET sent == SubSeq(doi, k + 1, Len(doi))
                                       IN  ~(WithoutDoiOrgPrefix(doi, sent) /\ IsDoi(sent))) =>
                     RejectedWith("Please enter a valid DOI (e.g., 10.1000/123456)")
              /\ ~last'.ok => (IsBlank(doi) \/ ~DoiPattern(CleanDoi(doi)))
       /\ (url' # url /\ last'.op \notin {"setUrl", "mount"}) =>
              /\ last'.op = "uploadFromUrl" /\ last'.ok /\ url' = <<>>
       /\ (doi' # doi /\ last'.op \notin {"setDoi", "mount"}) =>
              /\ last'.op = "uploadFromDoi" /\ last'.ok /\ doi' = <<>>
      ]_vars

C27_Witness ==
    /\ last.op = "urlSubmit" /\ ~last.ok /\ last.detail = "invalid"
    /\ url = <<"a">>
    /\ toasts = <<[kind |-> "error", msg |-> "Please enter a valid URL"]>>
    /\ ~homeIsLoading
    /\ pending = EmptyBag

(***************************************************************************)
(* Claims about what the components render.                                *)
(***************************************************************************)
\* the band a colour class of a bar or of a snippet stands for
Band(color) ==
    CASE color \in {"bg-green-500", "text-green-600"} -> "high"
      [] color \in {"bg-yellow-500", "text-yellow-600"} -> "medium"
      [] color \in {"bg-red-500", "text-red-600"} -> "low"
      [] OTHER -> "none"
\* the colour is the one of the score's tier, 0.7 and 0.4 in the upper tier
InBand(color, score) ==
    /\ (Band(color) = "high") = (score >= 700)
    /\ (Band(color) = "medium") = (score >= 400 /\ score < 700)
    /\ (Band(color) = "low") = (score < 400)

\* C12: a ScoreBar (alone and as each of the four bars of ScoreDisplay) and
\* every item of EvidenceSnippets is coloured high (green) iff its score is
\* >= 0.7, medium (yellow) iff it is >= 0.4 and < 0.7, and low (red) otherwise.
C12_ScoreBands ==
    rendered # Null =>
        /\ props.component = "ScoreBar" => InBand(rendered.color, props.score)
        /\ props.component = "ScoreDisplay" =>
              /\ InBand(rendered.bars[1].color, props.similarity)
              /\ InBand(rendered.bars[2].color, props.entailment)
              /\ InBand(rendered.bars[3].color, props.methodQuality)
              /\ InBand(rendered.bars[4].color, props.evidenceStrength)
        /\ props.component = "EvidenceSnippets" =>
              \A i \in 1..Len(props.snippets) :
                  InBand(rendered.items[i].color, props.snippets[i].similarity)

C12_Witness ==
    /\ rendered # Null
    /\ props.component = "ScoreBar"
    /\ props.score = 400
    /\ rendered.color = "bg-yellow-500"

\* the percentage a bar shows is one the legend lists for the bar's colour
InLegendRange(bar) ==
    /\ bar.percentage >= ScoreInterpretation(bar.color).from
    /\ bar.percentage <= ScoreInterpretation(bar.color).to

\* C24 (as claimed): for every score from 0 to 1, the percentage a ScoreBar
\* displays, alone or as one of the four bars of ScoreDisplay, lies in the
\* legend range of the colour the bar is drawn in: green 70-100, yellow
\* 40-69, red 0-39.
C24_PercentageInLegendRange ==
    rendered # Null =>
        /\ props.component = "ScoreBar" => InLegendRange(rendered)
        /\ props.component = "ScoreDisplay" =>
              \A i \in 1..4 : InLegendRange(rendered.bars[i])

\* C13: ScoreDisplay shows 'supports' with the check icon, green classes and
\* the sentence '... supports ...', 'contradicts' with the x icon, red classes
\* and '... contradicts ...', and 'neutral' and every other stance value with
\* the minus icon, gray classes and '... is neutral about ...'.
C13_StanceConsistent ==
    rendered # Null /\ props.component = "ScoreDisplay" =>
        LET shown == rendered.stance
        IN  CASE props.stance = "supports" ->
                    /\ shown.icon = [icon |-> "CheckCircleIcon", color |-> "text-green-500"]
                    /\ shown.color = "text-green-700 bg-green-50 border-green-200"
                    /\ shown.sentence = <<"The document", "supports", "your claim">>
              [] props.stance = "contradicts" ->
                    /\ shown.icon = [icon |-> "XCircleIcon", color |-> "text-red-500"]
                    /\ shown.color = "text-red-700 bg-red-50 border-red-200"
                    /\ shown.sentence = <<"The document", "contradicts", "your claim">>
              [] OTHER ->
                    /\ shown.icon = [icon |-> "MinusCircleIcon", color |-> "text-gray-500"]
                    /\ shown.color = "text-gray-700 bg-gray-50 border-gray-200"
                    /\ shown.sentence = <<"The document", "is neutral about", "your claim">>

C13_Witness ==
    /\ rendered # Null
    /\ props.component = "ScoreDisplay"
    /\ props.stance = "mixed"
    /\ rendered.stance.icon.icon = "MinusCircleIcon"

\* the ranking of the evidence: descending similarity, ties by ascending
\* sentence_index
RanksBefore(a, b) ==
    \/ a.similarity > b.similarity
    \/ a.similarity = b.similarity /\ a.sentence_index <= b.sentence_index
Ranked(snippets) ==
    \A i, j \in 1..Len(snippets) : i < j => RanksBefore(snippets[i], snippets[j])
\* the item shows this snippet: its text, position and word count, its
\* similarity as a whole percentage and in the colour of its tier
ShowsSnippet(item, snippet) ==
    /\ item.text = snippet.text
    /\ item.position = snippet.sentence_index
    /\ item.words = snippet.word_count
    /\ item.percentage * 10 <= snippet.similarity + 5
    /\ item.percentage * 10 > snippet.similarity - 6
    /\ InBand(item.color, snippet.similarity)
\* the snippets an item can be the display of
ShownBy(item) == {s \in Snippets : ShowsSnippet(item, s)}
\* the item shows this citation
ShowsCitation(item, citation) ==
    /\ item.key = citation.id
    /\ item.title = citation.document_title
    /\ item.text = citation.text
    /\ \A k \in 1..Len(item.links) : item.links[k].href[Len(item.links[k].href)] \in {citation.doi, citation.url}

\* C14: EvidenceSnippets and Citations render as many items as they receive,
\* the i-th item (counting from 0) numbered i+1 and showing the i-th received
\* element; so when the snippets are received in ranking order, 'Evidence #1'
\* shows a snippet that ranks before every other and each displayed snippet
\* ranks before the ones displayed after it.
C14_OrderPreserved ==
    rendered # Null =>
        /\ props.component = "EvidenceSnippets" =>
              LET received == props.snippets
                  items == rendered.items
              IN  /\ Len(items) = Len(received)
                  /\ \A i \in 1..Len(items) :
                        /\ items[i].number = (i - 1) + 1
                        /\ ShowsSnippet(items[i], received[i])
                  /\ Ranked(received) =>
                        \A i, j \in 1..Len(items) :
                            i < j =>
                                \A a \in ShownBy(items[i]), b \in ShownBy(items[j]) :
                                    RanksBefore(a, b)
        /\ props.component = "Citations" =>
              LET received == props.citations
                  items == rendered.items
              IN  /\ Len(items) = Len(received)
                  /\ \A i \in 1..Len(items) :
                        /\ items[i].number = (i - 1) + 1
                        /\ ShowsCitation(items[i], received[i])

C14_Witness ==
    /\ rendered # Null
    /\ props.component = "EvidenceSnippets"
    /\ Len(props.snippets) >= 3
    /\ Ranked(props.snippets)
    /\ props.snippets[1].similarity > props.snippets[2].similarity
    /\ props.snippets[2].sentence_index < props.snippets[3].sentence_index
    /\ rendered.items[1].number = 1

\* a DOI or URL that is there: neither undefined nor the empty string
Present(s) == s \notin {Undefined, ""}
Links(item, label) == {k \in 1..Len(item.links) : item.links[k].label = label}

\* C15: for every citation shown, there is one DOI link iff the citation has
\* a doi, and it leads to https://doi.org/<that doi>; there is one Source
\* link iff it has a url and no doi, and it leads to that url; there is no
\* link when it has neither, and never more than one link.
C15_CitationLinks ==
    rendered # Null /\ props.component = "Citations" =>
        \A i \in 1..Len(props.citations) :
            LET c == props.citations[i]
                item == rendered.items[i]
            IN  /\ Cardinality(Links(item, "DOI")) = IF Present(c.doi) THEN 1 ELSE 0
                /\ Cardinality(Links(item, "Source")) =
                      IF Present(c.url) /\ ~Present(c.doi) THEN 1 ELSE 0
                /\ Len(item.links) <= 1
                /\ ~Present(c.doi) /\ ~Present(c.url) => item.links = <<>>
                /\ \A k \in Links(item, "DOI") :
                      item.links[k].href = <<"https://doi.org/", c.doi>>
                /\ \A k \in Links(item, "Source") : item.links[k].href = <<c.url>>

C15_Witness ==
    /\ rendered # Null
    /\ props.component = "Citations"
    /\ Len(props.citations) = 2
    /\ Present(props.citations[1].doi) /\ Present(props.citations[1].url)
    /\ ~Present(props.citations[2].doi) /\ ~Present(props.citations[2].url)
    /\ Len(rendered.items[1].links) = 1
    /\ rendered.items[2].links = <<>>

\* C16: AssessmentPage and SharedAssessmentPage, not loading and holding an
\* assessment whose evidence_snippets and citations are both empty, show the
\* claim, the scores (with the stance) and the explanation, and show neither
\* the Evidence section nor the Citations section nor the not-found view.
C16_EmptyEvidenceRendered ==
    (/\ rendered # Null
     /\ props.component \in {"AssessmentPage", "SharedAssessmentPage"}
     /\ ~props.isLoading
     /\ props.assessment # Null
     /\ props.assessment.evidence_snippets = <<>>
     /\ props.assessment.citations = <<>>)
    => LET shown == {rendered.sections[k] : k \in 1..Len(rendered.sections)}
       IN  /\ {"claim", "scores", "explanation"} \subseteq shown
           /\ shown \cap {"evidence", "citations", "not-found", "loading"} = {}

C16_Witness ==
    /\ rendered # Null
    /\ props.component = "SharedAssessmentPage"
    /\ ~props.isLoading
    /\ props.assessment = SharedLookup("s3")
    /\ rendered.sections[1] = "header"

\* C17: for a document with n extracted claims HomePage shows the Extracted
\* Claims section iff n > 0, in it the first min(n, 3) claims in their order,
\* a claim of more than 150 characters as its first 150 characters followed
\* by '...' and any other claim whole, and the line 'And n-3 more...' iff
\* n > 3.
C17_ExtractedClaimsTruncated ==
    rendered # Null /\ props.component = "HomePage" =>
        LET claims == props.document.extracted_claims
            n == Len(claims)
        IN  /\ rendered.section = (n > 0)
            /\ Len(rendered.items) = IF n <= 3 THEN n ELSE 3
            /\ \A i \in 1..Len(rendered.items) :
                  IF Len(claims[i]) > 150
                  THEN /\ Len(rendered.items[i]) = 151
                       /\ \A k \in 1..150 : rendered.items[i][k] = claims[i][k]
                       /\ rendered.items[i][151] = "..."
                  ELSE rendered.items[i] = claims[i]
            /\ rendered.more = IF n > 3 THEN <<n - 3>> ELSE <<>>

C17_Witness ==
    /\ rendered # Null
    /\ props.component = "HomePage"
    /\ Len(props.document.extracted_claims) = 5
    /\ Len(props.document.extracted_claims[1]) = 151
    /\ Len(props.document.extracted_claims[2]) = 150
    /\ rendered.more = <<2>>

====
